---- MODULE Spec2Model ----
(***************************************************************************)
(* A model of the human-ai-framework package: the HumanAIFramework         *)
(* aggregate (core/framework.py), its factory (core/factory.py) and the    *)
(* interaction session log (models/interaction.py) and the framework       *)
(* service (services/framework_service.py) and the service registry       *)
(* (services/registry.py).                                                 *)
(***************************************************************************)
EXTENDS Integers, Sequences, FiniteSets, TLC

VARIABLES
    framework,   \* the HumanAIFramework object the caller holds, or Null
    call,        \* the operation that ran last: its name, arguments and result
    log,         \* history: the add_responsibility calls made on the ledger object
    nops,        \* number of mutating calls made on the aggregate so far
    session,     \* the InteractionSession object
    now,         \* the value datetime.now() would return
    the_interaction,  \* an Interaction object constructed on its own
    service,     \* the FrameworkService object
    registry,    \* the ServiceRegistry object: its services dict, in insertion order
    instances    \* the service objects the registry's callers constructed, by identity

vars == <<framework, call, log, nops, session, now, the_interaction, service,
          registry, instances>>

\* ---------------------------------------------------------------- bounds

\* longest list supplied to a factory argument or configuration key
MaxLen == 2
\* number of factory arguments / configuration keys supplied with values of their own
MaxKeys == 1
\* number of mutating calls made on one aggregate
MaxOps == 2
\* number of interactions added to one session
MaxInteractions == 2
\* number of messages added to the interactions of one session
MaxMessages == 2
\* latest reading of the clock
MaxClock == 1
\* messages added to an interaction constructed on its own
MaxLog == 3

\* the number of service objects the registry's callers construct
MaxServices == 2

\* ------------------------------------------------------- python values

\* The absence of an object (None where an object is expected).
Null == [null |-> TRUE]

\* A dynamically typed value: None, a list, a dict (the sequence of its items), an
\* int, or a key missing from a dict.
PyNone == [t |-> "none", items |-> <<>>, n |-> 0]
PyList(s) == [t |-> "list", items |-> s, n |-> 0]
PyDict(s) == [t |-> "dict", items |-> s, n |-> 0]
PyInt(k) == [t |-> "int", items |-> <<>>, n |-> k]
Absent == [t |-> "absent", items |-> <<>>, n |-> 0]

\* bool(x): None, the empty list, the empty dict and 0 are false.
Truthy(x) ==
    CASE x.t \in {"list", "dict"} -> x.items # <<>>
      [] x.t = "int" -> x.n # 0
      [] OTHER -> FALSE

\* iter(x) succeeds on a list and raises TypeError on None and on an int.
Iterable(x) == x.t = "list"

\* the values of a sequence
Range(s) == {s[i] : i \in 1..Len(s)}

\* ------------------------------------------------------------- catalogs

Role == {"HUMAN", "AI"}

\* the five catalog enumerations, by class name
Catalogs == {"EthicalPrinciple", "CommunicationProtocol", "FeedbackMechanism",
             "ImprovementProcess", "CollaborationWorkflow"}

\* the member names of an enumeration, in definition order
MemberNames(enum) ==
    CASE enum = "EthicalPrinciple" ->
            <<"TRANSPARENCY", "ACCOUNTABILITY", "PRIVACY", "FAIRNESS">>
      [] enum = "CommunicationProtocol" ->
            <<"STRUCTURED_DIALOGUE", "CLARIFICATION", "CONSISTENCY">>
      [] enum = "FeedbackMechanism" ->
            <<"IMMEDIATE", "SCHEDULED", "ISSUE_TRACKING">>
      [] enum = "ImprovementProcess" ->
            <<"CONTINUOUS_LEARNING", "RETROSPECTIVE_ANALYSIS", "INCREMENTAL_ENHANCEMENT">>
      [] enum = "CollaborationWorkflow" ->
            <<"TASK_DISTRIBUTION", "COMMUNICATION_CHANNELS", "DOCUMENTATION">>

\* a member of an enumeration: an object of its class, distinct from its name
EnumMember(enum, name) == [enum |-> enum, name |-> name]

\* `for m in E`: the members in definition order
MemberSeq(enum) ==
    [i \in 1..Len(MemberNames(enum)) |-> EnumMember(enum, MemberNames(enum)[i])]

\* the members of an enumeration as a set
Members(enum) == Range(MemberSeq(enum))

\* the keys of E.__members__
MembersDict(enum) == Range(MemberNames(enum))

EthicalPrinciple == Members("EthicalPrinciple")
CommunicationProtocol == Members("CommunicationProtocol")
FeedbackMechanism == Members("FeedbackMechanism")
ImprovementProcess == Members("ImprovementProcess")
CollaborationWorkflow == Members("CollaborationWorkflow")

\* the field of the aggregate that holds the active members of an enumeration
ActiveField(enum) ==
    CASE enum = "EthicalPrinciple" -> "active_principles"
      [] enum = "CommunicationProtocol" -> "active_protocols"
      [] enum = "FeedbackMechanism" -> "active_feedback_mechanisms"
      [] enum = "ImprovementProcess" -> "active_improvement_processes"
      [] enum = "CollaborationWorkflow" -> "active_workflows"

\* ------------------------------------------------------------ aggregate

RoleResponsibility(description, role) == [description |-> description, role |-> role]

\* HumanAIFramework.__init__ before _initialize_default_framework runs
EmptyFramework ==
    [responsibilities |-> [r \in Role |-> <<>>],
     active_principles |-> {},
     active_protocols |-> {},
     active_feedback_mechanisms |-> {},
     active_improvement_processes |-> {},
     active_workflows |-> {}]

\* a faulty add_responsibility: the entry is filed under HUMAN whatever its role
add_responsibility_misfiled(fw, role, description) ==
    [fw EXCEPT !.responsibilities["HUMAN"] =
        Append(@, RoleResponsibility(description, role))]

add_responsibility(fw, role, description) ==
    [fw EXCEPT !.responsibilities[role] =
        Append(@, RoleResponsibility(description, role))]

\* a faulty add_ethical_principle: adding an active principle removes it
add_ethical_principle_toggling(fw, principle) ==
    [fw EXCEPT !.active_principles =
        IF principle \in @ THEN @ \ {principle} ELSE @ \cup {principle}]

add_ethical_principle(fw, principle) ==
    [fw EXCEPT !.active_principles = @ \cup {principle}]

add_communication_protocol(fw, protocol) ==
    [fw EXCEPT !.active_protocols = @ \cup {protocol}]

add_feedback_mechanism(fw, mechanism) ==
    [fw EXCEPT !.active_feedback_mechanisms = @ \cup {mechanism}]

add_improvement_process(fw, process) ==
    [fw EXCEPT !.active_improvement_processes = @ \cup {process}]

add_collaboration_workflow(fw, workflow) ==
    [fw EXCEPT !.active_workflows = @ \cup {workflow}]

\* the add_* method that takes a member of enumeration enum
add_member(fw, enum, m) ==
    CASE enum = "EthicalPrinciple" -> add_ethical_principle(fw, m)
      [] enum = "CommunicationProtocol" -> add_communication_protocol(fw, m)
      [] enum = "FeedbackMechanism" -> add_feedback_mechanism(fw, m)
      [] enum = "ImprovementProcess" -> add_improvement_process(fw, m)
      [] enum = "CollaborationWorkflow" -> add_collaboration_workflow(fw, m)

\* the active set of enumeration enum
Active(fw, enum) == fw[ActiveField(enum)]

\* a faulty get_responsibilities_by_role: the ledger is returned newest first
get_responsibilities_newest_first(fw, role) ==
    [i \in 1..Len(fw.responsibilities[role]) |->
        fw.responsibilities[role][Len(fw.responsibilities[role]) + 1 - i]]

get_responsibilities_by_role(fw, role) == fw.responsibilities[role]

\* `for x in items: fw.add_responsibility(role, x)`
RECURSIVE AddResponsibilities(_, _, _)
AddResponsibilities(fw, role, items) ==
    IF items = <<>> THEN fw
    ELSE AddResponsibilities(add_responsibility(fw, role, Head(items)), role, Tail(items))

\* `for m in items: fw.add_<member of enum>(m)`
RECURSIVE AddMembers(_, _, _)
AddMembers(fw, enum, items) ==
    IF items = <<>> THEN fw
    ELSE AddMembers(add_member(fw, enum, Head(items)), enum, Tail(items))

\* the literal texts of _initialize_default_framework
DefaultHumanResponsibilities ==
    <<"Define vision, strategic objectives, and contextual expertise",
      "Provide clear instructions, ongoing feedback, and ethical oversight",
      "Make final decisions based on comprehensive information">>

DefaultAIResponsibilities ==
    <<"Generate data-driven insights, technical solutions, and creative recommendations",
      "Adhere to ethical guidelines and respond to instructions with precision",
      "Engage in iterative improvements and document reasoning behind suggestions">>

\* a faulty _initialize_default_framework: the collaboration workflows are left out
initialize_default_without_workflows(fw) ==
    LET f1 == AddResponsibilities(fw, "HUMAN", DefaultHumanResponsibilities)
        f2 == AddResponsibilities(f1, "AI", DefaultAIResponsibilities)
        f3 == AddMembers(f2, "EthicalPrinciple", MemberSeq("EthicalPrinciple"))
        f4 == AddMembers(f3, "CommunicationProtocol", MemberSeq("CommunicationProtocol"))
        f5 == AddMembers(f4, "FeedbackMechanism", MemberSeq("FeedbackMechanism"))
    IN  AddMembers(f5, "ImprovementProcess", MemberSeq("ImprovementProcess"))

initialize_default_framework(fw) ==
    LET f1 == AddResponsibilities(fw, "HUMAN", DefaultHumanResponsibilities)
        f2 == AddResponsibilities(f1, "AI", DefaultAIResponsibilities)
        f3 == AddMembers(f2, "EthicalPrinciple", MemberSeq("EthicalPrinciple"))
        f4 == AddMembers(f3, "CommunicationProtocol", MemberSeq("CommunicationProtocol"))
        f5 == AddMembers(f4, "FeedbackMechanism", MemberSeq("FeedbackMechanism"))
        f6 == AddMembers(f5, "ImprovementProcess", MemberSeq("ImprovementProcess"))
    IN  AddMembers(f6, "CollaborationWorkflow", MemberSeq("CollaborationWorkflow"))

\* HumanAIFramework(): the constructor
HumanAIFramework == initialize_default_framework(EmptyFramework)

\* -------------------------------------------------------------- factory

\* the result of a call: the object it returns, or the exception it raises
Ok(fw) == [kind |-> "ok", framework |-> fw]
Raise(kind) == [kind |-> kind, framework |-> Null]

\* the factory's seven parameters, which are also the configuration's keys
Keys == <<"human_responsibilities", "ai_responsibilities", "ethical_principles",
          "communication_protocols", "feedback_mechanisms", "improvement_processes",
          "collaboration_workflows">>

KeySet == Range(Keys)

\* the parameter (and configuration key) that carries the members of an enumeration
KeyOf(enum) ==
    CASE enum = "EthicalPrinciple" -> "ethical_principles"
      [] enum = "CommunicationProtocol" -> "communication_protocols"
      [] enum = "FeedbackMechanism" -> "feedback_mechanisms"
      [] enum = "ImprovementProcess" -> "improvement_processes"
      [] enum = "CollaborationWorkflow" -> "collaboration_workflows"

\* the parameter that carries the responsibilities of a role
RoleKey(role) == IF role = "HUMAN" THEN "human_responsibilities" ELSE "ai_responsibilities"

create_default_framework == HumanAIFramework

\* a faulty clearing of the defaults: the constructor's ledger is kept
ClearDefaults_keeping_ledger(fw) ==
    [fw EXCEPT !.active_principles = {},
               !.active_protocols = {},
               !.active_feedback_mechanisms = {},
               !.active_improvement_processes = {},
               !.active_workflows = {}]

\* create_custom_framework, "Clear all default settings"
ClearDefaults(fw) ==
    [fw EXCEPT !.responsibilities = [r \in Role |-> <<>>],
               !.active_principles = {},
               !.active_protocols = {},
               !.active_feedback_mechanisms = {},
               !.active_improvement_processes = {},
               !.active_workflows = {}]

\* `if arg: for x in arg: framework.add_responsibility(role, x)`, after outcome o
CustomResponsibilities(o, role, arg) ==
    IF o.kind # "ok" \/ ~Truthy(arg) THEN o
    ELSE IF ~Iterable(arg) THEN Raise("TypeError")
    ELSE Ok(AddResponsibilities(o.framework, role, arg.items))

\* `if arg: for m in arg: framework.add_<member of enum>(m)`, after outcome o
CustomMembers(o, enum, arg) ==
    IF o.kind # "ok" \/ ~Truthy(arg) THEN o
    ELSE IF ~Iterable(arg) THEN Raise("TypeError")
    ELSE Ok(AddMembers(o.framework, enum, arg.items))

\* args: the value of each of the seven parameters (PyNone when not supplied)
create_custom_framework(args) ==
    LET o0 == Ok(ClearDefaults(HumanAIFramework))
        o1 == CustomResponsibilities(o0, "HUMAN", args["human_responsibilities"])
        o2 == CustomResponsibilities(o1, "AI", args["ai_responsibilities"])
        o3 == CustomMembers(o2, "EthicalPrinciple", args["ethical_principles"])
        o4 == CustomMembers(o3, "CommunicationProtocol", args["communication_protocols"])
        o5 == CustomMembers(o4, "FeedbackMechanism", args["feedback_mechanisms"])
        o6 == CustomMembers(o5, "ImprovementProcess", args["improvement_processes"])
    IN  CustomMembers(o6, "CollaborationWorkflow", args["collaboration_workflows"])

\* config.get(key, [])
ConfigGet(config, key) ==
    IF config[key].t = "absent" THEN PyList(<<>>) ELSE config[key]

\* a faulty comprehension: the `if name in E.__members__` filter is left out
IsMemberName_unfiltered(enum, name) == TRUE

\* `name in E.__members__`
IsMemberName(enum, name) == name \in MembersDict(enum)

\* E[name]
EnumLookup(enum, name) ==
    IF name \in MembersDict(enum)
    THEN [kind |-> "ok", member |-> EnumMember(enum, name)]
    ELSE [kind |-> "KeyError", member |-> Null]

\* [E[name] for name in cfg if name in E.__members__]
ResolveNames(enum, cfg) ==
    IF ~Iterable(cfg) THEN [kind |-> "TypeError", value |-> PyNone]
    ELSE LET kept == SelectSeq(cfg.items, LAMBDA name : IsMemberName(enum, name))
             found == [i \in 1..Len(kept) |-> EnumLookup(enum, kept[i])]
         IN  IF \E i \in 1..Len(found) : found[i].kind # "ok"
             THEN [kind |-> "KeyError", value |-> PyNone]
             ELSE [kind |-> "ok",
                   value |-> PyList([i \in 1..Len(found) |-> found[i].member])]

\* the body of the try statement of create_framework_from_config
FromConfigBody(config) ==
    LET resolved == [enum \in Catalogs |-> ResolveNames(enum, ConfigGet(config, KeyOf(enum)))]
        order == <<"EthicalPrinciple", "CommunicationProtocol", "FeedbackMechanism",
                   "ImprovementProcess", "CollaborationWorkflow">>
        failed == {i \in 1..Len(order) : resolved[order[i]].kind # "ok"}
        first == CHOOSE i \in failed : \A j \in failed : i <= j
    IN  IF failed # {} THEN Raise(resolved[order[first]].kind)
        ELSE create_custom_framework(
                [k \in KeySet |->
                    IF k \in {"human_responsibilities", "ai_responsibilities"}
                    THEN ConfigGet(config, k)
                    ELSE resolved[CHOOSE enum \in Catalogs : KeyOf(enum) = k].value])

\* except (KeyError, ValueError) as e: raise ValueError(...)
create_framework_from_config(config) ==
    LET o == FromConfigBody(config)
    IN  IF o.kind \in {"KeyError", "ValueError"} THEN Raise("ValueError") ELSE o

\* --------------------------------------------------------------- inputs

\* the sequences over S of length at most n
SeqsUpTo(S, n) == UNION {[1..k -> S] : k \in 0..n}

\* the enumeration whose members a parameter carries
EnumOfKey(key) == CHOOSE enum \in Catalogs : KeyOf(enum) = key

ResponsibilityKeys == {RoleKey(r) : r \in Role}

\* what the elements of a list given to create_custom_framework are drawn from
CustomElements(key) ==
    IF key \in ResponsibilityKeys
    THEN <<"Custom human responsibility", "Custom AI responsibility">>
    ELSE SubSeq(MemberSeq(EnumOfKey(key)), 1, 2)

\* what the elements of a list of a configuration mapping are drawn from: for a
\* catalog key, the name of a member and a name that no member has
ConfigElements(key) ==
    IF key \in ResponsibilityKeys
    THEN <<"Custom human responsibility", "Custom AI responsibility">>
    ELSE <<MemberNames(EnumOfKey(key))[1], "NONEXISTENT">>

\* a list by the positions of its elements in the sequence they are drawn from
ListShapes == {PyList(x) : x \in SeqsUpTo({1, 2}, MaxLen)}

\* an int where a list is expected
IntShapes == {PyInt(0), PyInt(5)}

\* the value a shape stands for, its elements drawn from elements
Decode(shape, elements) ==
    IF shape.t = "list"
    THEN PyList([i \in 1..Len(shape.items) |-> elements[shape.items[i]]])
    ELSE shape

\* the sets of at most n keys
KeySubsets(n) == {S \in SUBSET KeySet : Cardinality(S) <= n}

\* the assignments of shapes to keys a caller makes: at most n keys supplied, each
\* with a shape of its own, or all seven keys supplied with one shape
Supplied(shapes, n) ==
    UNION {[S -> shapes] : S \in KeySubsets(n)}
        \cup {[k \in KeySet |-> shape] : shape \in shapes}

\* argument lists of create_custom_framework: a parameter not supplied is None
CustomArgs(f) ==
    [k \in KeySet |->
        IF k \in DOMAIN f THEN Decode(f[k], CustomElements(k)) ELSE PyNone]

\* configuration mappings: a key not supplied is missing from the mapping
Configs(f) ==
    [k \in KeySet |->
        IF k \in DOMAIN f THEN Decode(f[k], ConfigElements(k)) ELSE Absent]

CustomInputs(n) == {CustomArgs(f) : f \in Supplied(ListShapes, n)}

ConfigInputs(n) == {Configs(f) : f \in Supplied(ListShapes \cup IntShapes, n)}

\* ------------------------------------------------------ the factory's calls

NoCall == [op |-> "none", args |-> <<>>, ret |-> "none"]

NoSession == Null

NoInteraction == Null

NoService == Null

NoRegistry == Null

\* the parts of the state the factory and the aggregate do not touch
OtherUnchanged == UNCHANGED <<session, now, the_interaction, service, registry, instances>>

InitFactory ==
    /\ framework = Null
    /\ call = NoCall
    /\ log = <<>>
    /\ nops = 0
    /\ session = NoSession
    /\ now = 0
    /\ the_interaction = NoInteraction
    /\ service = NoService
    /\ registry = NoRegistry
    /\ instances = <<>>

\* HumanAIFramework(): the constructor called directly
NewHumanAIFramework ==
    /\ call.op = "none"
    /\ framework' = HumanAIFramework
    /\ call' = [op |-> "HumanAIFramework", args |-> <<>>, ret |-> "ok"]
    /\ UNCHANGED <<log, nops>>
    /\ OtherUnchanged

CreateDefaultFramework ==
    /\ call.op = "none"
    /\ framework' = create_default_framework
    /\ call' = [op |-> "create_default_framework", args |-> <<>>, ret |-> "ok"]
    /\ UNCHANGED <<log, nops>>
    /\ OtherUnchanged

CreateCustomFramework ==
    /\ call.op = "none"
    /\ \E args \in CustomInputs(MaxKeys) :
          LET o == create_custom_framework(args)
          IN  /\ framework' = o.framework
              /\ call' = [op |-> "create_custom_framework", args |-> args, ret |-> o.kind]
    /\ UNCHANGED <<log, nops>>
    /\ OtherUnchanged

CreateFrameworkFromConfig ==
    /\ call.op = "none"
    /\ \E config \in ConfigInputs(MaxKeys) :
          LET o == create_framework_from_config(config)
          IN  /\ framework' = o.framework
              /\ call' = [op |-> "create_framework_from_config", args |-> config,
                          ret |-> o.kind]
    /\ UNCHANGED <<log, nops>>
    /\ OtherUnchanged

NextFactory ==
    \/ NewHumanAIFramework
    \/ CreateDefaultFramework
    \/ CreateCustomFramework
    \/ CreateFrameworkFromConfig

\* One call of a factory entry point on inputs drawn from the bounded sets.
SpecFactory == InitFactory /\ [][NextFactory]_vars

\* --------------------------------------------- properties of the factory

\* the items of the list supplied for a parameter or key: none when it is None,
\* missing or not a list
SuppliedItems(v) == IF v.t = "list" THEN v.items ELSE <<>>

\* C4: a newly constructed HumanAIFramework, and the result of
\* create_default_framework(), has exactly 3 HUMAN and 3 AI responsibilities and
\* each of its five active sets is the full set of members of its catalog.
C4_DefaultConstruction ==
    call.op \in {"HumanAIFramework", "create_default_framework"} =>
        /\ Len(framework.responsibilities["HUMAN"]) = 3
        /\ Len(framework.responsibilities["AI"]) = 3
        /\ \A enum \in Catalogs : Active(framework, enum) = Members(enum)

\* create_default_framework has returned an aggregate
C4_Witness ==
    /\ call.op = "create_default_framework"
    /\ call.ret = "ok"
    /\ framework # Null
    /\ framework.active_principles # {}

\* C5: create_custom_framework yields exactly what was supplied and none of the
\* defaults: each role's ledger is the supplied list in order, each active set is
\* the set of the supplied members, and a category whose argument is None or empty
\* is empty.
C5_CustomExactlySupplied ==
    call.op = "create_custom_framework" =>
        /\ call.ret = "ok"
        /\ \A r \in Role :
              LET items == SuppliedItems(call.args[RoleKey(r)])
              IN  framework.responsibilities[r]
                    = [i \in 1..Len(items) |-> RoleResponsibility(items[i], r)]
        /\ \A enum \in Catalogs :
              Active(framework, enum) = Range(SuppliedItems(call.args[KeyOf(enum)]))

\* create_custom_framework has run with two different items supplied for every
\* parameter
C5_Witness ==
    /\ call.op = "create_custom_framework"
    /\ \A k \in KeySet :
          /\ Len(call.args[k].items) = 2
          /\ call.args[k].items[1] # call.args[k].items[2]
    /\ call.args["human_responsibilities"].items[1] = "Custom AI responsibility"
    /\ Len(framework.responsibilities["HUMAN"]) = 2

C7_InvalidNameRaisesValueError ==
    (/\ call.op = "create_framework_from_config"
     /\ call.args["ethical_principles"].t = "list"
     /\ \E n \in Range(call.args["ethical_principles"].items) :
           n \notin MembersDict("EthicalPrinciple"))
    => (call.ret = "ValueError" /\ framework = Null)

\* C8: create_framework_from_config given an int where a sequence is expected
\* fails with the ValueError raised at the end of the function; no other kind of
\* error escapes and no aggregate is returned.
C8_WrongTypeRaisesValueError ==
    (/\ call.op = "create_framework_from_config"
     /\ \E k \in KeySet : call.args[k].t = "int")
    => (call.ret = "ValueError" /\ framework = Null)

\* ---------------------------------------------- the aggregate's operations

\* the add_responsibility calls `for x in items: add_responsibility(role, x)` makes
LedgerCalls(role, items) == [i \in 1..Len(items) |-> <<role, items[i]>>]

\* the add_responsibility calls the constructor makes on the ledger it creates
ConstructorCalls ==
    LedgerCalls("HUMAN", DefaultHumanResponsibilities)
        \o LedgerCalls("AI", DefaultAIResponsibilities)

\* the add_responsibility calls create_custom_framework makes on the ledger it
\* installs in place of the constructor's
CustomCalls(args) ==
    (IF Truthy(args["human_responsibilities"])
     THEN LedgerCalls("HUMAN", args["human_responsibilities"].items) ELSE <<>>)
    \o
    (IF Truthy(args["ai_responsibilities"])
     THEN LedgerCalls("AI", args["ai_responsibilities"].items) ELSE <<>>)

\* the responsibility texts a caller adds after construction
Descriptions == {"Custom human responsibility", "Custom AI responsibility"}

\* the state after a construction by op on args, which makes calls on the ledger
Constructed(op, args, fw, calls) ==
    /\ framework = fw
    /\ call = [op |-> op, args |-> args, ret |-> "ok"]
    /\ log = calls
    /\ nops = 0
    /\ session = NoSession
    /\ now = 0
    /\ the_interaction = NoInteraction
    /\ service = NoService
    /\ registry = NoRegistry
    /\ instances = <<>>

\* The ways an aggregate comes to exist: the constructor, and each factory entry
\* point on the inputs that supply all seven keys with one shape of list.
Init ==
    \/ Constructed("HumanAIFramework", <<>>, HumanAIFramework, ConstructorCalls)
    \/ Constructed("create_default_framework", <<>>, create_default_framework,
                   ConstructorCalls)
    \/ \E args \in CustomInputs(0) :
          Constructed("create_custom_framework", args,
                      create_custom_framework(args).framework, CustomCalls(args))
    \/ \E config \in ConfigInputs(0) :
          /\ create_framework_from_config(config).kind = "ok"
          /\ Constructed("create_framework_from_config", config,
                         create_framework_from_config(config).framework,
                         CustomCalls([k \in KeySet |-> ConfigGet(config, k)]))

AddResponsibility ==
    /\ nops < MaxOps
    /\ \E role \in Role, description \in Descriptions :
          /\ framework' = add_responsibility(framework, role, description)
          /\ log' = Append(log, <<role, description>>)
          /\ call' = [op |-> "add_responsibility", args |-> <<role, description>>,
                      ret |-> "None"]
    /\ nops' = nops + 1
    /\ OtherUnchanged

\* a call of the add_* method of enumeration enum, named op
AddMember(op, enum) ==
    /\ nops < MaxOps
    /\ \E m \in Members(enum) :
          /\ framework' = add_member(framework, enum, m)
          /\ call' = [op |-> op, args |-> <<m>>, ret |-> "None"]
    /\ nops' = nops + 1
    /\ UNCHANGED log
    /\ OtherUnchanged

AddEthicalPrinciple == AddMember("add_ethical_principle", "EthicalPrinciple")

AddCommunicationProtocol == AddMember("add_communication_protocol", "CommunicationProtocol")

AddFeedbackMechanism == AddMember("add_feedback_mechanism", "FeedbackMechanism")

AddImprovementProcess == AddMember("add_improvement_process", "ImprovementProcess")

AddCollaborationWorkflow == AddMember("add_collaboration_workflow", "CollaborationWorkflow")

GetResponsibilitiesByRole ==
    /\ \E role \in Role :
          call' = [op |-> "get_responsibilities_by_role", args |-> <<role>>,
                   ret |-> get_responsibilities_by_role(framework, role)]
    /\ UNCHANGED <<framework, log, nops>>
    /\ OtherUnchanged

Next ==
    \/ AddResponsibility
    \/ AddEthicalPrinciple
    \/ AddCommunicationProtocol
    \/ AddFeedbackMechanism
    \/ AddImprovementProcess
    \/ AddCollaborationWorkflow
    \/ GetResponsibilitiesByRole

\* An aggregate after construction, under any sequence of calls of its methods.
Spec == Init /\ [][Next]_vars

\* ------------------------------------------------------------- summary

\* an element of the list that generate_framework_summary joins with newlines
Line(text) == [text |-> text, arg |-> ""]

\* f"      - {resp.description}"
Bullet(description) == [text |-> "      - ", arg |-> description]

\* `for resp in self.get_responsibilities_by_role(role): summary.append(...)`
ResponsibilityLines(self, role) ==
    LET ledger == get_responsibilities_by_role(self, role)
    IN  [i \in 1..Len(ledger) |-> Bullet(ledger[i].description)]

\* the if/elif chain on one principle: the line it appends, if any
PrincipleLine(principle) ==
    IF principle = EnumMember("EthicalPrinciple", "TRANSPARENCY")
    THEN <<Line("   - Transparency: Clearly explain AI suggestions and underlying decision processes.")>>
    ELSE IF principle = EnumMember("EthicalPrinciple", "ACCOUNTABILITY")
    THEN <<Line("   - Accountability: Ensure human oversight remains central to final decision-making.")>>
    ELSE IF principle = EnumMember("EthicalPrinciple", "PRIVACY")
    THEN <<Line("   - Privacy: Protect personal and sensitive data in accordance with legal standards.")>>
    ELSE IF principle = EnumMember("EthicalPrinciple", "FAIRNESS")
    THEN <<Line("   - Fairness: Actively mitigate biases and promote inclusivity in all outputs.")>>
    ELSE <<>>

\* `for principle in self.active_principles`, the set iterated in the given order
RECURSIVE PrincipleLines(_)
PrincipleLines(order) ==
    IF order = <<>> THEN <<>>
    ELSE PrincipleLine(Head(order)) \o PrincipleLines(Tail(order))

\* the opening elements of the summary
SummaryHead ==
    <<Line("Human-AI Interaction Framework for Digital Product Design and Development"),
      Line("\nPurpose:"),
      Line("  Establish a robust, ethical, and transparent collaborative framework between human users"),
      Line("  and AI systems to drive innovation in digital product design and development."),
      Line("\n1. Roles and Responsibilities:")>>

\* the elements appended after the ethical principles, whatever the aggregate holds
SummaryRest ==
    <<Line("\n3. Communication Protocols:"),
      Line("   - Structured Dialogue: Clear, concise directives and contextual, actionable responses."),
      Line("   - Clarification Protocols: Request additional details when instructions are unclear."),
      Line("   - Consistency: Maintain standards for formatting, terminology, and response structure."),
      Line("\n4. Feedback Mechanisms:"),
      Line("   - Immediate Feedback: Real-time feedback for rapid adjustments."),
      Line("   - Scheduled Reviews: Regular check-ins to assess process efficacy."),
      Line("   - Issue Tracking: Maintain a shared log to record challenges and resolutions."),
      Line("\n5. Iterative Improvement Processes:"),
      Line("   - Continuous Learning: Integrate updated domain knowledge and best practices."),
      Line("   - Retrospective Analysis: Evaluate each development cycle for lessons learned."),
      Line("   - Incremental Enhancements: Implement small updates that drive long-term progress."),
      Line("\n6. Collaborative Workflow:"),
      Line("   - Task Distribution: Clearly delineate responsibilities and establish milestones."),
      Line("   - Communication Channels: Utilize structured channels for all interactions."),
      Line("   - Documentation: Archive decisions, feedback, and process updates."),
      Line("\nCommitment:"),
      Line("  Both human users and AI systems commit to operating within this framework, ensuring that"),
      Line("  collaborative efforts are effective, ethically sound, and continuously evolving to meet"),
      Line("  the needs of digital product innovation.")>>

\* the orders in which iterating a set can yield its elements: a set of enum
\* members is laid out by the hashes of their names, which differ from one
\* interpreter run to the next, and by the order of insertion where they collide
RECURSIVE IterationOrders(_)
IterationOrders(S) ==
    IF S = {} THEN {<<>>}
    ELSE UNION {{<<x>> \o o : o \in IterationOrders(S \ {x})} : x \in S}

\* a faulty generate_framework_summary: the AI ledger is listed newest first
generate_framework_summary_reversing(self, order) ==
    [self |-> self,
     ret |-> SummaryHead
             \o <<Line("   a) Human User:")>> \o ResponsibilityLines(self, "HUMAN")
             \o <<Line("   b) AI System:")>> \o [i \in 1..Len(self.responsibilities["AI"]) |->
                    ResponsibilityLines(self, "AI")[Len(self.responsibilities["AI"]) + 1 - i]]
             \o <<Line("\n2. Ethical Considerations:")>> \o PrincipleLines(order)
             \o SummaryRest]

\* a faulty generate_framework_summary: the ledgers are emptied as they are listed
generate_framework_summary_consuming(self, order) ==
    [self |-> [self EXCEPT !.responsibilities = [r \in Role |-> <<>>]],
     ret |-> SummaryHead
             \o <<Line("   a) Human User:")>> \o ResponsibilityLines(self, "HUMAN")
             \o <<Line("   b) AI System:")>> \o ResponsibilityLines(self, "AI")
             \o <<Line("\n2. Ethical Considerations:")>> \o PrincipleLines(order)
             \o SummaryRest]

\* HumanAIFramework.generate_framework_summary, the iteration of active_principles
\* yielding its members in the given order: the object after the call, and the
\* list of elements whose join is returned
generate_framework_summary(self, order) ==
    [self |-> self,
     ret |-> SummaryHead
             \o <<Line("   a) Human User:")>> \o ResponsibilityLines(self, "HUMAN")
             \o <<Line("   b) AI System:")>> \o ResponsibilityLines(self, "AI")
             \o <<Line("\n2. Ethical Considerations:")>> \o PrincipleLines(order)
             \o SummaryRest]

\* ------------------------------------------- the aggregate and its summary

GenerateFrameworkSummary ==
    /\ \E order \in IterationOrders(framework.active_principles) :
          LET o == generate_framework_summary(framework, order)
          IN  /\ framework' = o.self
              /\ call' = [op |-> "generate_framework_summary", args |-> <<>>,
                          ret |-> o.ret]
    /\ UNCHANGED <<log, nops>>
    /\ OtherUnchanged

NextSummary ==
    \/ Next
    \/ GenerateFrameworkSummary

\* An aggregate after construction, under any sequence of calls of its methods,
\* generate_framework_summary among them.
SpecSummary == Init /\ [][NextSummary]_vars

\* ------------------------------------ the caller and the list it was given

\* What the caller does to the list get_responsibilities_by_role returned. The
\* method returns self.responsibilities[role] itself, no copy of it: the list the
\* caller holds is the ledger of that role, and a change to the one is a change
\* to the other.
ListChange(ledger, role, change) ==
    CASE change = "list.append" ->
            Append(ledger, RoleResponsibility("Custom AI responsibility", role))
      [] change = "list.pop" -> SubSeq(ledger, 1, Len(ledger) - 1)
      [] change = "list.reverse" -> [i \in 1..Len(ledger) |-> ledger[Len(ledger) + 1 - i]]

CallerChangesReturnedList ==
    /\ call.op = "get_responsibilities_by_role"
    /\ nops < MaxOps
    /\ \E change \in {"list.append", "list.pop", "list.reverse"} :
          LET role == call.args[1]
          IN  /\ change = "list.pop" => framework.responsibilities[role] # <<>>
              /\ framework' = [framework EXCEPT !.responsibilities[role] =
                                  ListChange(@, role, change)]
              /\ call' = [op |-> change, args |-> <<role>>, ret |-> "None"]
    /\ nops' = nops + 1
    /\ UNCHANGED log
    /\ OtherUnchanged

NextAlias ==
    \/ NextSummary
    \/ CallerChangesReturnedList

\* An aggregate under calls of its methods by a caller that also uses the lists
\* the methods return to it.
SpecAlias == Init /\ [][NextAlias]_vars

\* ------------------------------------------- properties of the aggregate

\* the descriptions of a sequence of RoleResponsibility entries
DescriptionsOf(entries) == [i \in 1..Len(entries) |-> entries[i].description]

\* the descriptions add_responsibility was called with for a role, in call order
AddedFor(role) ==
    LET calls == SelectSeq(log, LAMBDA c : c[1] = role)
    IN  [i \in 1..Len(calls) |-> calls[i][2]]

\* C1: after construction (directly or by a factory entry point) and any sequence
\* of add_responsibility calls, every entry of responsibilities[r] has role r.
C1_RolePartitioning ==
    \A r \in Role : \A i \in 1..Len(framework.responsibilities[r]) :
        framework.responsibilities[r][i].role = r

\* add_responsibility has run for both roles on an aggregate built by the factory
C1_Witness ==
    /\ call.op = "add_responsibility"
    /\ nops >= 2
    /\ \A r \in Role : \E i \in 1..Len(log) : log[i][1] = r
    /\ \A r \in Role :
          /\ Len(framework.responsibilities[r]) >= 2
          /\ framework.responsibilities[r][1].description \in Descriptions

\* C2: get_responsibilities_by_role(r) returns exactly the descriptions added for
\* r, in the order added, duplicates kept; an empty sequence when none was added.
C2_InsertionOrder ==
    /\ \A r \in Role :
          DescriptionsOf(get_responsibilities_by_role(framework, r)) = AddedFor(r)
    /\ call.op = "get_responsibilities_by_role" =>
          DescriptionsOf(call.ret) = AddedFor(call.args[1])

\* the ledger returned holds a description twice, around a different one
C2_Witness ==
    /\ call.op = "get_responsibilities_by_role"
    /\ Len(call.ret) = 3
    /\ call.ret[1].description = call.ret[3].description
    /\ call.ret[1].description # call.ret[2].description
    /\ nops >= 1

\* the name of the add_* method of an enumeration
AddOp(enum) ==
    CASE enum = "EthicalPrinciple" -> "add_ethical_principle"
      [] enum = "CommunicationProtocol" -> "add_communication_protocol"
      [] enum = "FeedbackMechanism" -> "add_feedback_mechanism"
      [] enum = "ImprovementProcess" -> "add_improvement_process"
      [] enum = "CollaborationWorkflow" -> "add_collaboration_workflow"

\* C3: each add_* method called with a member that is already active leaves the
\* aggregate unchanged, so that calling it twice gives the state that calling it
\* once gives.
C3_IdempotentInsertion ==
    /\ [][\A enum \in Catalogs : \A m \in Members(enum) :
            (/\ m \in Active(framework, enum)
             /\ call'.op = AddOp(enum)
             /\ call'.args = <<m>>) => framework' = framework]_vars
    /\ [](\A enum \in Catalogs : \A m \in Members(enum) :
            add_member(add_member(framework, enum, m), enum, m)
                = add_member(framework, enum, m))

\* add_ethical_principle has run twice with one member on an aggregate that had no
\* active member and no responsibility: the set has size 1
C3_Witness ==
    /\ call.op = "add_ethical_principle"
    /\ nops = 2
    /\ log = <<>>
    /\ framework.active_principles = {call.args[1]}
    /\ \A enum \in Catalogs \ {"EthicalPrinciple"} : Active(framework, enum) = {}

\* ------------------------------------------------------ interaction log

InteractionType ==
    {EnumMember("InteractionType", n) :
        n \in {"INSTRUCTION", "RESPONSE", "CLARIFICATION", "FEEDBACK", "SUGGESTION",
               "DECISION", "STATUS"}}

InteractionStatus ==
    {EnumMember("InteractionStatus", n) :
        n \in {"PENDING", "IN_PROGRESS", "COMPLETED", "FAILED", "CANCELLED"}}

\* an argument the caller leaves out, so that the parameter's default applies
Omitted == [omitted |-> TRUE]

\* {}
EmptyDict == PyDict(<<>>)

\* `metadata or {}`
OrEmptyDict(metadata) == IF Truthy(metadata) THEN metadata ELSE EmptyDict

\* datetime.now(): a reading no earlier than the reading t before it
Readings(t) == {u \in t..(t + 1) : u <= MaxClock}

\* Message(content=, role=, timestamp=, metadata=)
Message(content, role, timestamp, metadata) ==
    [content |-> content, role |-> role, timestamp |-> timestamp, metadata |-> metadata]

\* Interaction(interaction_id=, interaction_type=, status=, metadata=): the fields
\* left to their default factories are an empty list and two readings of the clock
Interaction(interaction_id, interaction_type, status, metadata, t1, t2) ==
    [interaction_id |-> interaction_id,
     interaction_type |-> interaction_type,
     status |-> status,
     messages |-> <<>>,
     created_at |-> t1,
     updated_at |-> t2,
     metadata |-> metadata]

\* InteractionSession(session_id=)
InteractionSession(session_id, t1, t2) ==
    [session_id |-> session_id,
     interactions |-> <<>>,
     created_at |-> t1,
     updated_at |-> t2,
     metadata |-> EmptyDict]

\* a faulty add_message: the interaction's updated_at is not refreshed
add_message_not_refreshing(self, content, role, metadata, t1, t2) ==
    LET message == Message(content, role, t1, OrEmptyDict(metadata))
    IN  [self |-> [self EXCEPT !.messages = Append(@, message)],
         ret |-> message]

\* a faulty add_message: the message is put in front of the earlier ones
add_message_prepending(self, content, role, metadata, t1, t2) ==
    LET message == Message(content, role, t1, OrEmptyDict(metadata))
    IN  [self |-> [self EXCEPT !.messages = <<message>> \o @, !.updated_at = t2],
         ret |-> message]

\* Interaction.add_message; t1 and t2 are its two readings of the clock
add_message(self, content, role, metadata, t1, t2) ==
    LET message == Message(content, role, t1, OrEmptyDict(metadata))
    IN  [self |-> [self EXCEPT !.messages = Append(@, message), !.updated_at = t2],
         ret |-> message]

\* the status parameter of add_interaction, PENDING by default
StatusOrDefault(status) ==
    IF status = Omitted THEN EnumMember("InteractionStatus", "PENDING") ELSE status

\* a faulty add_interaction: the session's updated_at is not refreshed
add_interaction_not_refreshing(self, interaction_id, interaction_type, status, metadata, t1, t2, t3) ==
    LET interaction == Interaction(interaction_id, interaction_type,
                                   StatusOrDefault(status), OrEmptyDict(metadata), t1, t2)
    IN  [kind |-> "ok",
         self |-> [self EXCEPT !.interactions = Append(@, interaction)],
         ret |-> Len(self.interactions) + 1]

\* InteractionSession.add_interaction; t1, t2 and t3 are its readings of the clock.
\* ret is the position in self.interactions of the object returned.
add_interaction(self, interaction_id, interaction_type, status, metadata, t1, t2, t3) ==
    LET interaction == Interaction(interaction_id, interaction_type,
                                   StatusOrDefault(status), OrEmptyDict(metadata), t1, t2)
    IN  [kind |-> "ok",
         self |-> [self EXCEPT !.interactions = Append(@, interaction), !.updated_at = t3],
         ret |-> Len(self.interactions) + 1]

\* a reference to the object at position i of the sequence that holds it
Ref(i) == [t |-> "ref", items |-> <<>>, n |-> i]

\* the scan of get_interaction from position i on: the first interaction whose id
\* equals the argument, or None when the loop runs out
RECURSIVE ScanInteractions(_, _, _)
ScanInteractions(interactions, interaction_id, i) ==
    IF i > Len(interactions) THEN PyNone
    ELSE IF interactions[i].interaction_id = interaction_id THEN Ref(i)
    ELSE ScanInteractions(interactions, interaction_id, i + 1)

\* a faulty get_interaction: the first interaction of the session, whatever its id
get_interaction_ignoring_id(self, interaction_id) ==
    IF self.interactions = <<>> THEN PyNone ELSE Ref(1)

\* InteractionSession.get_interaction
get_interaction(self, interaction_id) ==
    ScanInteractions(self.interactions, interaction_id, 1)

\* a faulty get_latest_interaction: the oldest interaction
get_latest_interaction_oldest(self) ==
    IF self.interactions = <<>> THEN PyNone ELSE Ref(1)

\* InteractionSession.get_latest_interaction
get_latest_interaction(self) ==
    IF ~(self.interactions # <<>>) THEN PyNone ELSE Ref(Len(self.interactions))

\* a faulty get_last_message: the first message
get_last_message_first(self) ==
    IF self.messages = <<>> THEN PyNone ELSE Ref(1)

\* Interaction.get_last_message
get_last_message(self) ==
    IF ~(self.messages # <<>>) THEN PyNone ELSE Ref(Len(self.messages))

\* the comprehension of get_messages_by_role from position i on
RECURSIVE FilterMessages(_, _, _)
FilterMessages(messages, role, i) ==
    IF i > Len(messages) THEN <<>>
    ELSE (IF messages[i].role = role THEN <<Ref(i)>> ELSE <<>>)
             \o FilterMessages(messages, role, i + 1)

\* a faulty get_messages_by_role: every message, whatever its role
get_messages_by_role_unfiltered(self, role) ==
    [i \in 1..Len(self.messages) |-> Ref(i)]

\* Interaction.get_messages_by_role
get_messages_by_role(self, role) ==
    FilterMessages(self.messages, role, 1)

\* the ids a caller looks up: two that add_interaction is called with, one that
\* it never is
LookupIds == {"x", "y", "nonexistent"}

\* the calls of add_interaction a caller makes: (id, type, status, metadata)
AddInteractionInputs ==
    {<<"x", EnumMember("InteractionType", "INSTRUCTION"), Omitted, PyNone>>,
     <<"x", EnumMember("InteractionType", "RESPONSE"),
       EnumMember("InteractionStatus", "IN_PROGRESS"), PyDict(<<<<"key", "value">>>>)>>,
     <<"y", EnumMember("InteractionType", "INSTRUCTION"),
       EnumMember("InteractionStatus", "IN_PROGRESS"), PyNone>>}

\* the calls of add_message a caller makes: (content, role, metadata)
AddMessageInputs ==
    {<<"Test message", "HUMAN", PyNone>>,
     <<"AI response", "AI", PyDict(<<<<"key", "value">>>>)>>}

\* the number of messages of all interactions of a session
RECURSIVE MessageCount(_)
MessageCount(interactions) ==
    IF interactions = <<>> THEN 0
    ELSE Len(Head(interactions).messages) + MessageCount(Tail(interactions))

\* the parts of the state the session does not touch
AggregateUnchanged == UNCHANGED <<framework, log, nops, service, registry, instances>>

InitSession ==
    /\ \E t1 \in Readings(0) : \E t2 \in Readings(t1) :
          /\ session = InteractionSession("test-session", t1, t2)
          /\ now = t2
    /\ call = NoCall
    /\ framework = Null
    /\ log = <<>>
    /\ nops = 0
    /\ the_interaction = NoInteraction
    /\ service = NoService
    /\ registry = NoRegistry
    /\ instances = <<>>

AddInteraction ==
    /\ Len(session.interactions) < MaxInteractions
    /\ \E a \in AddInteractionInputs :
       \E t1 \in Readings(now) : \E t2 \in Readings(t1) : \E t3 \in Readings(t2) :
          LET o == add_interaction(session, a[1], a[2], a[3], a[4], t1, t2, t3)
          IN  /\ session' = o.self
              /\ now' = t3
              /\ call' = [op |-> "add_interaction", args |-> a,
                          ret |-> [kind |-> o.kind, value |-> o.ret]]
    /\ UNCHANGED the_interaction
    /\ AggregateUnchanged

\* add_message on the interaction object at position i of the session
AddMessage ==
    /\ MessageCount(session.interactions) < MaxMessages
    /\ \E i \in 1..Len(session.interactions) : \E a \in AddMessageInputs :
       \E t1 \in Readings(now) : \E t2 \in Readings(t1) :
          LET o == add_message(session.interactions[i], a[1], a[2], a[3], t1, t2)
          IN  /\ session' = [session EXCEPT !.interactions[i] = o.self]
              /\ now' = t2
              /\ call' = [op |-> "add_message", args |-> <<i>> \o a,
                          ret |-> [kind |-> "ok", value |-> o.ret]]
    /\ UNCHANGED the_interaction
    /\ AggregateUnchanged

NextSession ==
    \/ AddInteraction
    \/ AddMessage

\* A session after construction, under any sequence of calls of its methods.
SpecSession == InitSession /\ [][NextSession]_vars

\* ---------------------------------------------------- lookups in a session

\* the parts of the state a read of the session leaves alone
SessionUnchanged == UNCHANGED <<session, now, the_interaction>>

\* A session constructed when the clock shows its last reading within the bound,
\* so that every later reading is that one: the lookups read no timestamp.
InitLookup ==
    /\ session = InteractionSession("test-session", MaxClock, MaxClock)
    /\ now = MaxClock
    /\ call = NoCall
    /\ framework = Null
    /\ log = <<>>
    /\ nops = 0
    /\ the_interaction = NoInteraction
    /\ service = NoService
    /\ registry = NoRegistry
    /\ instances = <<>>

GetInteraction ==
    /\ \E id \in LookupIds :
          call' = [op |-> "get_interaction", args |-> <<id>>,
                   ret |-> [kind |-> "ok", value |-> get_interaction(session, id)]]
    /\ SessionUnchanged
    /\ AggregateUnchanged

GetLatestInteraction ==
    /\ call' = [op |-> "get_latest_interaction", args |-> <<>>,
                ret |-> [kind |-> "ok", value |-> get_latest_interaction(session)]]
    /\ SessionUnchanged
    /\ AggregateUnchanged

NextLookup ==
    \/ AddInteraction
    \/ AddMessage
    \/ GetInteraction
    \/ GetLatestInteraction

\* A session under any sequence of additions and lookups.
SpecLookup == InitLookup /\ [][NextLookup]_vars

\* ------------------------------------------- an interaction on its own

\* Interaction(interaction_id="test-interaction", interaction_type=INSTRUCTION,
\* status=PENDING), constructed directly
InitInteraction ==
    /\ \E t1 \in Readings(0) : \E t2 \in Readings(t1) :
          /\ the_interaction = Interaction("test-interaction",
                                   EnumMember("InteractionType", "INSTRUCTION"),
                                   EnumMember("InteractionStatus", "PENDING"),
                                   EmptyDict, t1, t2)
          /\ now = t2
    /\ call = NoCall
    /\ session = NoSession
    /\ framework = Null
    /\ log = <<>>
    /\ nops = 0
    /\ service = NoService
    /\ registry = NoRegistry
    /\ instances = <<>>

\* add_message on the interaction
InteractionAddMessage ==
    /\ Len(the_interaction.messages) < MaxLog
    /\ \E a \in AddMessageInputs :
       \E t1 \in Readings(now) : \E t2 \in Readings(t1) :
          LET o == add_message(the_interaction, a[1], a[2], a[3], t1, t2)
          IN  /\ the_interaction' = o.self
              /\ now' = t2
              /\ call' = [op |-> "add_message", args |-> a,
                          ret |-> [kind |-> "ok", value |-> o.ret]]
    /\ UNCHANGED session
    /\ AggregateUnchanged

GetLastMessage ==
    /\ call' = [op |-> "get_last_message", args |-> <<>>,
                ret |-> [kind |-> "ok", value |-> get_last_message(the_interaction)]]
    /\ SessionUnchanged
    /\ AggregateUnchanged

GetMessagesByRole ==
    /\ \E role \in Role :
          call' = [op |-> "get_messages_by_role", args |-> <<role>>,
                   ret |-> [kind |-> "ok",
                            value |-> get_messages_by_role(the_interaction, role)]]
    /\ SessionUnchanged
    /\ AggregateUnchanged

NextInteraction ==
    \/ InteractionAddMessage
    \/ GetLastMessage
    \/ GetMessagesByRole

\* An interaction after construction, under any sequence of calls of its methods.
SpecInteraction == InitInteraction /\ [][NextInteraction]_vars

\* ------------------------------------------ properties of the session log

\* C9: add_interaction with an id that an interaction of the session already
\* carries is rejected, so the interaction ids of a session are pairwise distinct
\* in every reachable state.
C9_InteractionIdsDistinct ==
    \A i, j \in 1..Len(session.interactions) :
        i # j => session.interactions[i].interaction_id
                    # session.interactions[j].interaction_id

\* C10: a successful add_interaction appends exactly one Interaction at the end
\* of the session's sequence and leaves the earlier ones as they were; the new
\* Interaction has the given id and type, the given status or PENDING when none is
\* given, and no messages; it is the object returned; and the session's updated_at
\* is the clock's reading in the call.
C10_AddInteractionAppends ==
    [][(call'.op = "add_interaction" /\ call'.ret.kind = "ok") =>
         LET old == session.interactions
             new == session'.interactions
             added == new[Len(new)]
         IN  /\ Len(new) = Len(old) + 1
             /\ SubSeq(new, 1, Len(old)) = old
             /\ added.interaction_id = call'.args[1]
             /\ added.interaction_type = call'.args[2]
             /\ added.status = (IF call'.args[3] = Omitted
                                THEN EnumMember("InteractionStatus", "PENDING")
                                ELSE call'.args[3])
             /\ added.messages = <<>>
             /\ call'.ret.value = Len(new)
             /\ session'.updated_at = now'
             /\ now' >= now
             /\ session'.created_at = session.created_at]_vars

\* add_interaction has run without a status, on a session whose earlier
\* interaction holds a message, at a later reading of the clock than the session's
\* creation
C10_Witness ==
    /\ call.op = "add_interaction"
    /\ call.ret.kind = "ok"
    /\ call.args[3] = Omitted
    /\ Len(session.interactions) = 2
    /\ session.interactions[1].messages # <<>>
    /\ session.interactions[2].status = EnumMember("InteractionStatus", "PENDING")
    /\ session.updated_at > session.created_at

\* -------------------------------------------- properties of the lookups

\* C11: get_interaction(id) never raises and never changes the session; it
\* returns an interaction of the session whose id equals the argument when one
\* exists, and None exactly when no interaction of the session has that id.
C11_GetInteractionFindsById ==
    [][call'.op = "get_interaction" =>
         LET id == call'.args[1]
             found == call'.ret.value
             matches == {i \in 1..Len(session.interactions) :
                            session.interactions[i].interaction_id = id}
         IN  /\ call'.ret.kind = "ok"
             /\ session' = session
             /\ (found = PyNone) <=> (matches = {})
             /\ found # PyNone => found.t = "ref" /\ found.n \in matches]_vars

\* get_interaction("y") has returned the second interaction of a session whose
\* first interaction has another id
C11_Witness ==
    /\ call.op = "get_interaction"
    /\ call.args = <<"y">>
    /\ call.ret.value = Ref(2)
    /\ Len(session.interactions) = 2
    /\ session.interactions[1].interaction_id = "x"
    /\ session.interactions[2].interaction_id = "y"

\* C12: get_latest_interaction returns None when the session has no
\* interactions, and otherwise the interaction most recently appended by
\* add_interaction: the object the last add_interaction returned, which later
\* add_message calls and reads do not displace.
C12_LatestIsLastAppended ==
    [][/\ call'.op = "add_interaction"
            => get_latest_interaction(session') = Ref(call'.ret.value)
       /\ call'.op # "add_interaction"
            => get_latest_interaction(session') = get_latest_interaction(session)
       /\ call'.op = "get_latest_interaction"
            => /\ call'.ret.kind = "ok"
               /\ session.interactions = <<>> <=> call'.ret.value = PyNone
               /\ session.interactions # <<>>
                    => call'.ret.value = Ref(Len(session.interactions))]_vars

\* get_latest_interaction has returned the second interaction of a session after
\* a message was added to the first one
C12_Witness ==
    /\ call.op = "get_latest_interaction"
    /\ call.ret.value = Ref(2)
    /\ Len(session.interactions) = 2
    /\ session.interactions[1].messages # <<>>

\* --------------------------------------- properties of one interaction

\* C13: add_message(content, role, metadata) appends exactly one Message with
\* the given content and role at the end of the interaction's messages, returns
\* that Message, and sets the interaction's updated_at to the clock's reading in
\* the call, so that updated_at is not earlier than the last message's timestamp.
C13_AddMessageAppends ==
    [][call'.op = "add_message" =>
         LET old == the_interaction.messages
             new == the_interaction'.messages
             added == new[Len(new)]
         IN  /\ call'.ret.kind = "ok"
             /\ Len(new) = Len(old) + 1
             /\ SubSeq(new, 1, Len(old)) = old
             /\ added.content = call'.args[1]
             /\ added.role = call'.args[2]
             /\ added.metadata = OrEmptyDict(call'.args[3])
             /\ added.timestamp >= now
             /\ call'.ret.value = added
             /\ the_interaction'.updated_at = now'
             /\ the_interaction'.updated_at >= added.timestamp
             /\ the_interaction'.created_at = the_interaction.created_at]_vars

\* add_message has run a second time, at a later reading of the clock than the
\* one its message is stamped with
C13_Witness ==
    /\ call.op = "add_message"
    /\ Len(the_interaction.messages) = 2
    /\ call.ret.value = the_interaction.messages[2]
    /\ the_interaction.updated_at > the_interaction.messages[2].timestamp

\* C14: get_last_message returns None for an interaction with no messages and
\* otherwise the message appended last; get_messages_by_role(r) returns exactly
\* the messages whose role is r, in the order they were appended.
C14_MessageProjections ==
    LET messages == the_interaction.messages
        value == call.ret.value
    IN  /\ call.op = "get_last_message" =>
              /\ call.ret.kind = "ok"
              /\ messages = <<>> <=> value = PyNone
              /\ messages # <<>> => value = Ref(Len(messages))
        /\ call.op = "get_messages_by_role" =>
              /\ call.ret.kind = "ok"
              /\ \A k \in 1..Len(value) : value[k].t = "ref"
              /\ {value[k].n : k \in 1..Len(value)}
                    = {i \in 1..Len(messages) : messages[i].role = call.args[1]}
              /\ \A j, k \in 1..Len(value) : j < k => value[j].n < value[k].n

\* after M1 (HUMAN), M2 (AI), M3 (HUMAN), get_messages_by_role(HUMAN) has
\* returned [M1, M3], and M3 is the message get_last_message returns
C14_Witness ==
    /\ call.op = "get_messages_by_role"
    /\ call.args = <<"HUMAN">>
    /\ Len(the_interaction.messages) = 3
    /\ the_interaction.messages[1].role = "HUMAN"
    /\ the_interaction.messages[2].role = "AI"
    /\ the_interaction.messages[3].role = "HUMAN"
    /\ call.ret.value = <<Ref(1), Ref(3)>>
    /\ get_last_message(the_interaction) = Ref(3)

\* ------------------------------------- properties of the log as a whole

\* s is a prefix of t
IsPrefix(s, t) == Len(s) <= Len(t) /\ SubSeq(t, 1, Len(s)) = s

\* the timestamps of the messages do not decrease along the sequence
Chronological(messages) ==
    \A j, k \in 1..Len(messages) :
        j < k => messages[j].timestamp <= messages[k].timestamp

\* C15: the session log is append-only and chronological. Across every step of
\* add_interaction and add_message the interactions the session held stay where
\* they were, as the objects they were, and the messages each held are a prefix
\* of the messages it holds afterwards; and, the clock never going backwards,
\* message timestamps do not decrease along an interaction's sequence and
\* created_at <= updated_at holds for every interaction and for the session.
C15_AppendOnlyChronological ==
    /\ [](/\ session.created_at <= session.updated_at
          /\ \A i \in 1..Len(session.interactions) :
                /\ session.interactions[i].created_at <= session.interactions[i].updated_at
                /\ Chronological(session.interactions[i].messages))
    /\ [][LET old == session.interactions
              new == session'.interactions
          IN  /\ Len(old) <= Len(new)
              /\ \A i \in 1..Len(old) :
                    \/ new[i] = old[i]
                    \/ /\ IsPrefix(old[i].messages, new[i].messages)
                       /\ new[i].updated_at >= old[i].updated_at
                       /\ new[i] = [old[i] EXCEPT !.messages = new[i].messages,
                                                  !.updated_at = new[i].updated_at]
              /\ session'.session_id = session.session_id
              /\ session'.created_at = session.created_at
              /\ session'.updated_at >= session.updated_at]_vars

\* a second message was added, at a later reading of the clock, to the first of
\* two interactions
C15_Witness ==
    /\ call.op = "add_message"
    /\ Len(session.interactions) = 2
    /\ Len(session.interactions[1].messages) = 2
    /\ session.interactions[1].messages[1].timestamp
          < session.interactions[1].messages[2].timestamp
    /\ session.interactions[1].messages[1].content
          # session.interactions[1].messages[2].content

\* ------------------------------------------------- the framework service

\* bool(d) of a configuration mapping: false when it has no key
ConfigTruthy(config) == \E k \in DOMAIN config : config[k].t # "absent"

\* the mapping with no key
EmptyConfig == [k \in KeySet |-> Absent]

\* {"debug": 1}: a mapping whose only key is none of the seven the factory reads
UnrecognisedConfig ==
    [k \in KeySet \cup {"debug"} |-> IF k = "debug" THEN PyInt(1) ELSE Absent]

\* {"framework": config}
Nested(config) == [nested |-> TRUE, framework |-> config]

\* a mapping that holds the framework's keys itself
Flat(config) == [nested |-> FALSE, framework |-> config]

\* `config or {}` in BaseService.__init__: None becomes the empty dict
ServiceConfig(config) == IF config = Null THEN Flat(EmptyConfig) ELSE config

\* bool(self.config)
ServiceConfigTruthy(config) == config.nested \/ ConfigTruthy(config.framework)

\* FrameworkService(config): BaseService.__init__, then self.framework = None
FrameworkService(config) ==
    [config |-> ServiceConfig(config), framework |-> Null, initialized |-> FALSE]

\* the framework configuration initialize works from; managed is what
\* config_manager.get("framework", {}) returns
FrameworkConfig(self, managed) ==
    IF ~ServiceConfigTruthy(self.config) THEN managed
    ELSE self.config.framework

\* `except ValueError`: the default aggregate stands in for the factory's result
\* when the factory raised ValueError; any other exception goes on
Fallback(o) == IF o.kind = "ValueError" THEN Ok(create_default_framework) ELSE o

\* the aggregate initialize builds from the framework configuration
Made(framework_config) ==
    IF ConfigTruthy(framework_config)
    THEN Fallback(create_framework_from_config(framework_config))
    ELSE Ok(create_default_framework)

\* self.framework = ...; self.initialized = True, reached when no exception left
\* the construction
Holding(self, made) ==
    IF made.kind = "ok"
    THEN [kind |-> "ok",
          self |-> [self EXCEPT !.framework = made.framework, !.initialized = TRUE]]
    ELSE [kind |-> made.kind, self |-> self]

\* a faulty initialize: an aggregate is built whether or not one is held
initialize_rebuilding(self, managed) ==
    Holding(self, Made(FrameworkConfig(self, managed)))

\* FrameworkService.initialize: the service after the call and how the call ends
initialize(self, managed) ==
    IF self.initialized THEN [kind |-> "ok", self |-> self]
    ELSE Holding(self, Made(FrameworkConfig(self, managed)))

\* a faulty shutdown: the aggregate is kept
shutdown_keeping_framework(self) == [self EXCEPT !.initialized = FALSE]

\* FrameworkService.shutdown
shutdown(self) == [self EXCEPT !.framework = Null, !.initialized = FALSE]

\* a faulty get_framework: the held value is returned without the check
get_framework_unchecked(self) == [kind |-> "ok", value |-> self.framework]

\* FrameworkService.get_framework
get_framework(self) ==
    IF ~self.initialized \/ self.framework = Null
    THEN [kind |-> "RuntimeError", value |-> Null]
    ELSE [kind |-> "ok", value |-> self.framework]

\* FrameworkService.generate_framework_summary, the aggregate's set of principles
\* iterated in the given order
service_generate_framework_summary(self, order) ==
    LET o == get_framework(self)
    IN  IF o.kind # "ok" THEN o
        ELSE [kind |-> "ok", value |-> generate_framework_summary(o.value, order).ret]

\* the configurations a service is constructed with: none, and the framework
\* configurations, nested under "framework" or given as the mapping itself
ServiceConfigs ==
    {Null} \cup {Nested(c) : c \in ConfigInputs(0) \cup {UnrecognisedConfig}}
           \cup {Flat(c) : c \in ConfigInputs(0) \cup {UnrecognisedConfig}}

\* what the configuration manager holds under "framework": nothing, or a
\* framework configuration
ManagedConfigs == {EmptyConfig, UnrecognisedConfig} \cup ConfigInputs(0)

\* the parts of the state the service does not touch
ServiceUnchanged ==
    UNCHANGED <<framework, log, nops, session, now, the_interaction, registry, instances>>

InitService ==
    /\ \E config \in ServiceConfigs : service = FrameworkService(config)
    /\ registry = NoRegistry
    /\ instances = <<>>
    /\ call = NoCall
    /\ framework = Null
    /\ log = <<>>
    /\ nops = 0
    /\ session = NoSession
    /\ now = 0
    /\ the_interaction = NoInteraction

\* the service after a call that ended as o, and the call as it ended
ServiceEnds(op, args, o) ==
    /\ service' = o.self
    /\ call' = [op |-> op, args |-> args, ret |-> [kind |-> o.kind, value |-> Null]]

ServiceInitialize ==
    /\ \E managed \in ManagedConfigs :
          ServiceEnds("initialize", <<>>, initialize(service, managed))
    /\ ServiceUnchanged

ServiceShutdown ==
    /\ service' = shutdown(service)
    /\ call' = [op |-> "shutdown", args |-> <<>>, ret |-> [kind |-> "ok", value |-> Null]]
    /\ ServiceUnchanged

ServiceGetFramework ==
    /\ call' = [op |-> "get_framework", args |-> <<>>, ret |-> get_framework(service)]
    /\ UNCHANGED service
    /\ ServiceUnchanged

\* the aggregate a service holds, if it holds one
Held(self) == IF self.framework = Null THEN EmptyFramework ELSE self.framework

ServiceGenerateFrameworkSummary ==
    /\ \E order \in IterationOrders(Held(service).active_principles) :
          call' = [op |-> "generate_framework_summary", args |-> <<>>,
                   ret |-> service_generate_framework_summary(service, order)]
    /\ UNCHANGED service
    /\ ServiceUnchanged

NextService ==
    \/ ServiceInitialize
    \/ ServiceShutdown
    \/ ServiceGetFramework
    \/ ServiceGenerateFrameworkSummary

\* A service after construction, under any sequence of calls of its methods.
SpecService == InitService /\ [][NextService]_vars

\* ------------------------------------------- the service and its callers

\* BaseService.__enter__: initialize, then the service is what `with` binds
enter(self, managed) == initialize(self, managed)

\* a faulty __exit__: shutdown is left out when the scope ends with an exception
exit_on_success_only(self, exc_type) ==
    IF exc_type = "None" THEN shutdown(self) ELSE self

\* BaseService.__exit__: shutdown; None is returned, so that an exception raised
\* in the scope goes on to the caller
exit(self, exc_type) == shutdown(self)

\* what the statements inside a `with service:` do
WithBodies == {"pass", "raise", "add_responsibility", "shutdown"}

\* the statements inside a `with service:` run on the service: the service when
\* they end, and the exception they end with, if any
Body(self, body) ==
    CASE body = "pass" -> [exc_type |-> "None", self |-> self]
      [] body = "raise" -> [exc_type |-> "Exception", self |-> self]
      [] body = "add_responsibility" ->
            [exc_type |-> "None",
             self |-> [self EXCEPT !.framework =
                          add_responsibility(@, "HUMAN", "Custom human responsibility")]]
      [] body = "shutdown" -> [exc_type |-> "None", self |-> shutdown(self)]

\* the end of the scope: __exit__ runs on the service as the statements left it
Leave(done) ==
    [kind |-> IF done.exc_type = "None" THEN "ok" ELSE done.exc_type,
     self |-> exit(done.self, done.exc_type)]

\* the scope after __enter__ ended as entered
Scope(entered, body) ==
    IF entered.kind # "ok" THEN [kind |-> entered.kind, self |-> entered.self]
    ELSE Leave(Body(entered.self, body))

\* `with service: body`: the service afterwards and how the statement ends. When
\* __enter__ raises, the scope is not entered and __exit__ is not called.
with_service(self, managed, body) == Scope(enter(self, managed), body)

ServiceWith ==
    /\ \E managed \in ManagedConfigs, body \in WithBodies :
          ServiceEnds("with", <<body>>, with_service(service, managed, body))
    /\ ServiceUnchanged

\* a call of add_responsibility or add_ethical_principle on the aggregate that
\* get_framework returned, which is the one the service holds
ServiceChangeHeld ==
    /\ get_framework(service).kind = "ok"
    /\ nops < MaxOps
    /\ \/ \E role \in Role :
             /\ service' = [service EXCEPT !.framework =
                               add_responsibility(@, role, "Custom human responsibility")]
             /\ call' = [op |-> "add_responsibility",
                         args |-> <<role, "Custom human responsibility">>,
                         ret |-> [kind |-> "ok", value |-> Null]]
       \/ \E principle \in EthicalPrinciple :
             /\ service' = [service EXCEPT !.framework = add_ethical_principle(@, principle)]
             /\ call' = [op |-> "add_ethical_principle", args |-> <<principle>>,
                         ret |-> [kind |-> "ok", value |-> Null]]
    /\ nops' = nops + 1
    /\ UNCHANGED <<framework, log, session, now, the_interaction, registry, instances>>

NextServiceUse ==
    \/ NextService
    \/ ServiceWith
    \/ ServiceChangeHeld

\* A service under calls of its methods by callers that also use it as a context
\* manager and change the aggregate it gives them.
SpecServiceUse == InitService /\ [][NextServiceUse]_vars

\* ------------------------------------------------- the service registry

\* the names services are registered under
ServiceNames == {"framework", "design"}

\* the classes given to get_typed: the two the registered objects are instances
\* of, and a subclass of BaseService they are not instances of
ServiceTypes == {"BaseService", "FrameworkService", "OtherService"}

\* isinstance(service, service_type) of a FrameworkService object
isinstance(self, service_type) == service_type \in {"BaseService", "FrameworkService"}

\* the bool given as `initialize`, as a value among a call's arguments
PyBool(b) == [t |-> "bool", items |-> <<>>, n |-> IF b THEN 1 ELSE 0]

\* BaseService.is_initialized
is_initialized(self) == self.initialized

\* {"ethical_principles": 5}: an int where the list of names is expected
WrongTypeConfig == Configs([k \in {"ethical_principles"} |-> PyInt(5)])

\* the configurations the registered services are constructed with
RegistryConfigs == {Null, Nested(UnrecognisedConfig), Nested(WrongTypeConfig)}

\* what the configuration manager holds under "framework" while the registry is used
RegistryManaged == {EmptyConfig, UnrecognisedConfig}

\* ServiceRegistry(): the services dict is empty. A dict is the sequence of its
\* items in insertion order, the order `for ... in self.services.items()` follows.
ServiceRegistry == [services |-> <<>>]

\* service_name in self.services
contains(self, service_name) ==
    \E i \in DOMAIN self.services : self.services[i].name = service_name

\* self.services[service_name]: a reference to the service object
Lookup(self, service_name) ==
    self.services[CHOOSE i \in DOMAIN self.services :
                      self.services[i].name = service_name].service

\* del self.services[service_name]
Delete(self, service_name) ==
    [self EXCEPT !.services = SelectSeq(@, LAMBDA item : item.name # service_name)]

\* the names in self.services
Registered(self) == {self.services[i].name : i \in DOMAIN self.services}

\* how a call on the registry ends
Outcome(kind, self, heap, value) ==
    [kind |-> kind, self |-> self, heap |-> heap, value |-> value]

\* ServiceRegistry.register
register(self, heap, service_name, a_service) ==
    IF contains(self, service_name) THEN Outcome("ValueError", self, heap, Null)
    ELSE Outcome("ok",
                 [self EXCEPT !.services =
                     Append(@, [name |-> service_name, service |-> a_service])],
                 heap, Null)

\* ServiceRegistry.unregister
unregister(self, heap, service_name) ==
    IF ~contains(self, service_name) THEN Outcome("KeyError", self, heap, Null)
    ELSE LET ref == Lookup(self, service_name)
             stopped == IF is_initialized(heap[ref.n])
                        THEN [heap EXCEPT ![ref.n] = shutdown(@)]
                        ELSE heap
         IN  Outcome("ok", Delete(self, service_name), stopped, Null)

\* service.initialize() called by the registry on the object ref refers to, o
\* being how that call ends: an exception of initialize leaves the registry's
\* method, and value is what the method returns otherwise
Initialized(self, heap, ref, o, value) ==
    Outcome(o.kind, self, [heap EXCEPT ![ref.n] = o.self],
            IF o.kind = "ok" THEN value ELSE Null)

\* ServiceRegistry.get
get(self, heap, managed, service_name, initialize_it) ==
    IF ~contains(self, service_name) THEN Outcome("KeyError", self, heap, Null)
    ELSE IF initialize_it /\ ~is_initialized(heap[Lookup(self, service_name).n])
    THEN Initialized(self, heap, Lookup(self, service_name),
                     initialize(heap[Lookup(self, service_name).n], managed),
                     Lookup(self, service_name))
    ELSE Outcome("ok", self, heap, Lookup(self, service_name))

\* the isinstance test of get_typed on what get returned
CheckType(o, service_type) ==
    IF o.kind # "ok" THEN o
    ELSE IF ~isinstance(o.heap[o.value.n], service_type)
    THEN Outcome("TypeError", o.self, o.heap, Null)
    ELSE o

\* ServiceRegistry.get_typed: get runs first, the isinstance test after it
get_typed(self, heap, managed, service_name, service_type, initialize_it) ==
    CheckType(get(self, heap, managed, service_name, initialize_it), service_type)

\* the loop of initialize_all from item i on: an exception of initialize ends it
RECURSIVE InitializeFrom(_, _, _, _)
\* the loop after service.initialize() on item i ended as o
InitializeNext(self, heap, managed, i, o) ==
    IF o.kind # "ok" THEN o
    ELSE InitializeFrom(self, o.heap, managed, i + 1)

InitializeFrom(self, heap, managed, i) ==
    IF i > Len(self.services) THEN Outcome("ok", self, heap, Null)
    ELSE IF is_initialized(heap[self.services[i].service.n])
    THEN InitializeFrom(self, heap, managed, i + 1)
    ELSE InitializeNext(self, heap, managed, i,
             Initialized(self, heap, self.services[i].service,
                         initialize(heap[self.services[i].service.n], managed), Null))

\* ServiceRegistry.initialize_all
initialize_all(self, heap, managed) == InitializeFrom(self, heap, managed, 1)

\* the loop of shutdown_all from item i on
RECURSIVE ShutdownFrom(_, _, _)
ShutdownFrom(self, heap, i) ==
    IF i > Len(self.services) THEN Outcome("ok", self, heap, Null)
    ELSE LET ref == self.services[i].service
         IN  IF is_initialized(heap[ref.n])
             THEN ShutdownFrom(self, [heap EXCEPT ![ref.n] = shutdown(@)], i + 1)
             ELSE ShutdownFrom(self, heap, i + 1)

\* ServiceRegistry.shutdown_all
shutdown_all(self, heap) == ShutdownFrom(self, heap, 1)

\* the parts of the state the registry does not touch
RegistryUnchanged ==
    UNCHANGED <<framework, log, nops, session, now, the_interaction, service>>

\* a registry after construction, and the services its callers have constructed
InitRegistry ==
    /\ registry = ServiceRegistry
    /\ instances \in [1..MaxServices -> {FrameworkService(c) : c \in RegistryConfigs}]
    /\ call = NoCall
    /\ framework = Null
    /\ log = <<>>
    /\ nops = 0
    /\ session = NoSession
    /\ now = 0
    /\ the_interaction = NoInteraction
    /\ service = NoService

\* the registry and the service objects after a call, and the call as it ended
Ends(op, args, o) ==
    /\ registry' = o.self
    /\ instances' = o.heap
    /\ call' = [op |-> op, args |-> args, ret |-> [kind |-> o.kind, value |-> o.value]]

RegistryRegister ==
    /\ \E service_name \in ServiceNames, n \in DOMAIN instances :
          Ends("register", <<service_name, Ref(n)>>,
               register(registry, instances, service_name, Ref(n)))
    /\ RegistryUnchanged

RegistryUnregister ==
    /\ \E service_name \in ServiceNames :
          Ends("unregister", <<service_name>>,
               unregister(registry, instances, service_name))
    /\ RegistryUnchanged

RegistryGet ==
    /\ \E service_name \in ServiceNames, initialize_it \in BOOLEAN,
          managed \in RegistryManaged :
          Ends("get", <<service_name, PyBool(initialize_it)>>,
               get(registry, instances, managed, service_name, initialize_it))
    /\ RegistryUnchanged

RegistryGetTyped ==
    /\ \E service_name \in ServiceNames, service_type \in ServiceTypes,
          initialize_it \in BOOLEAN, managed \in RegistryManaged :
          Ends("get_typed", <<service_name, PyBool(initialize_it), service_type>>,
               get_typed(registry, instances, managed, service_name, service_type,
                         initialize_it))
    /\ RegistryUnchanged

RegistryInitializeAll ==
    /\ \E managed \in RegistryManaged :
          Ends("initialize_all", <<>>, initialize_all(registry, instances, managed))
    /\ RegistryUnchanged

RegistryShutdownAll ==
    /\ Ends("shutdown_all", <<>>, shutdown_all(registry, instances))
    /\ RegistryUnchanged

RegistryContains ==
    /\ \E service_name \in ServiceNames :
          Ends("__contains__", <<service_name>>,
               Outcome("ok", registry, instances,
                       PyBool(contains(registry, service_name))))
    /\ RegistryUnchanged

NextRegistry ==
    \/ RegistryRegister
    \/ RegistryUnregister
    \/ RegistryGet
    \/ RegistryGetTyped
    \/ RegistryInitializeAll
    \/ RegistryShutdownAll
    \/ RegistryContains

\* A registry under any sequence of calls of its methods.
SpecRegistry == InitRegistry /\ [][NextRegistry]_vars

\* ------------------------------------------- properties of the summary

\* the six section headers, in the order of the sections
SectionHeaders ==
    <<Line("\n1. Roles and Responsibilities:"),
      Line("\n2. Ethical Considerations:"),
      Line("\n3. Communication Protocols:"),
      Line("\n4. Feedback Mechanisms:"),
      Line("\n5. Iterative Improvement Processes:"),
      Line("\n6. Collaborative Workflow:")>>

\* the positions of an element in a summary
Positions(summary, line) == {i \in 1..Len(summary) : summary[i] = line}

\* the position of an element that occurs once in a summary
Position(summary, line) == CHOOSE i \in Positions(summary, line) : TRUE

\* the elements that list the descriptions added for a role, in the order added
AddedLines(role) == [i \in 1..Len(AddedFor(role)) |-> Bullet(AddedFor(role)[i])]

\* C16: for every aggregate the summary holds the six section headers, once each
\* and in order, and the fixed lines of sections 3 to 6 whatever the four active
\* sets of those sections hold; it lists each role's responsibilities in the
\* order they were added; and it holds the explanatory line of an ethical
\* principle if and only if the principle is in active_principles.
C16_SummarySkeleton ==
    call.op = "generate_framework_summary" =>
        LET summary == call.ret
            at(k) == Position(summary, SectionHeaders[k])
            human == Position(summary, Line("   a) Human User:"))
            ai == Position(summary, Line("   b) AI System:"))
        IN  /\ \A k \in 1..6 : Cardinality(Positions(summary, SectionHeaders[k])) = 1
            /\ \A k \in 1..5 : at(k) < at(k + 1)
            /\ SubSeq(summary, at(3), Len(summary)) = SummaryRest
            /\ human = at(1) + 1
            /\ SubSeq(summary, human + 1, ai - 1) = AddedLines("HUMAN")
            /\ SubSeq(summary, ai + 1, at(2) - 1) = AddedLines("AI")
            /\ \A principle \in EthicalPrinciple :
                  PrincipleLine(principle)[1] \in Range(summary)
                      <=> principle \in framework.active_principles

\* a summary was generated for an aggregate with no active protocol, mechanism,
\* process or workflow, some but not all principles active, and two different
\* responsibilities of one role
C16_Witness ==
    /\ call.op = "generate_framework_summary"
    /\ framework.active_protocols = {}
    /\ framework.active_feedback_mechanisms = {}
    /\ framework.active_improvement_processes = {}
    /\ framework.active_workflows = {}
    /\ Cardinality(framework.active_principles) = 1
    /\ Len(framework.responsibilities["AI"]) = 2
    /\ framework.responsibilities["AI"][1] # framework.responsibilities["AI"][2]

\* C17: generate_framework_summary is deterministic: the text returned for an
\* aggregate is the text every aggregate with equal ledgers and equal active sets
\* returns, whatever order the iteration of active_principles yields them in.
C17_SummaryDeterministic ==
    call.op = "generate_framework_summary" =>
        \A order \in IterationOrders(framework.active_principles) :
            generate_framework_summary(framework, order).ret = call.ret

\* C18: generate_framework_summary and get_responsibilities_by_role leave both
\* ledgers and all five active sets exactly as they were.
C18_ReadsHaveNoSideEffects ==
    [][call'.op \in {"generate_framework_summary", "get_responsibilities_by_role"}
          => framework' = framework]_vars

\* a summary was generated for an aggregate that holds responsibilities and
\* active members and was changed after construction
C18_Witness ==
    /\ call.op = "generate_framework_summary"
    /\ nops >= 1
    /\ \A r \in Role : framework.responsibilities[r] # <<>>
    /\ \A enum \in Catalogs : Active(framework, enum) # {}

\* C19: the ledgers change only through add_responsibility: what a caller does
\* to the sequence get_responsibilities_by_role returned changes neither what a
\* later get_responsibilities_by_role nor what generate_framework_summary reports.
C19_LedgerChangesOnlyThroughAdd ==
    [][framework'.responsibilities # framework.responsibilities
          => call'.op = "add_responsibility"]_vars

\* ------------------------------------------- properties of the service

\* the service holds an aggregate and is marked initialized
Ready(self) == self.initialized /\ self.framework # Null

\* C20: a service is ready from a completed initialize until the next shutdown
\* and at no other time: not after construction, not after shutdown, not after an
\* initialize that raised. While it is not ready, get_framework and
\* generate_framework_summary raise RuntimeError and return no aggregate; while
\* it is ready, they return without error, get_framework the held aggregate.
C20_ReadsNeedInitialize ==
    /\ [](call.op = "none" => ~Ready(service))
    /\ [][/\ (call'.op = "initialize" /\ call'.ret.kind = "ok") => Ready(service')
          /\ (call'.op = "initialize" /\ call'.ret.kind # "ok")
                => /\ ~Ready(service)
                   /\ ~Ready(service')
          /\ call'.op = "shutdown" => ~Ready(service')
          /\ call'.op \in {"get_framework", "generate_framework_summary"} =>
                /\ service' = service
                /\ ~Ready(service) =>
                      /\ call'.ret.kind = "RuntimeError"
                      /\ call'.ret.value = Null
                /\ Ready(service) =>
                      /\ call'.ret.kind = "ok"
                      /\ call'.ret.value # Null
                      /\ call'.op = "get_framework"
                            => call'.ret.value = service.framework]_vars

\* get_framework has raised on a service that is not initialized and was given a
\* framework configuration under "framework"
C20_Witness ==
    /\ call.op = "get_framework"
    /\ call.ret.kind = "RuntimeError"
    /\ ~service.initialized
    /\ service.config.nested
    /\ ConfigTruthy(service.config.framework)

\* C21: whenever create_framework_from_config fails on the service's non-empty
\* framework configuration, a wrong type where a sequence is expected included,
\* initialize catches the failure, holds the default aggregate and completes
\* with the service initialized: no call of initialize ends with an exception.
C21_InitializeFallsBack ==
    [][call'.op = "initialize" =>
          /\ call'.ret.kind = "ok"
          /\ Ready(service')
          /\ (/\ ~service.initialized
              /\ \A managed \in ManagedConfigs :
                    /\ ConfigTruthy(FrameworkConfig(service, managed))
                    /\ FromConfigBody(FrameworkConfig(service, managed)).kind # "ok")
                => service'.framework = create_default_framework]_vars

C27_InitializeIdempotent ==
    [][/\ (call'.op = "initialize" /\ service.initialized) =>
             /\ call'.ret.kind = "ok"
             /\ service' = service
             /\ get_framework(service').value = service.framework
       /\ (/\ service'.framework # service.framework
           /\ service'.framework # Null
           /\ call'.op \notin {"add_responsibility", "add_ethical_principle"})
             => (call'.op = "initialize" /\ ~service.initialized)]_vars

\* initialize has run on a service that holds a default aggregate with a
\* responsibility added to it
C27_Witness ==
    /\ call.op = "initialize"
    /\ call.ret.kind = "ok"
    /\ service.initialized
    /\ nops >= 1
    /\ Len(service.framework.responsibilities["HUMAN"]) = 4

\* C28: after every call of initialize, shutdown, get_framework or
\* generate_framework_summary, completed or failed, the service is marked
\* initialized if and only if it holds an aggregate; an initialize that ends with
\* an exception leaves it not initialized and holding no aggregate.
C28_InitializedIffHolding ==
    /\ service.initialized <=> service.framework # Null
    /\ (call.op = "initialize" /\ call.ret.kind # "ok")
          => (~service.initialized /\ service.framework = Null)

\* initialize has ended with an exception
C28_Witness ==
    /\ call.op = "initialize"
    /\ call.ret.kind = "TypeError"
    /\ ~service.initialized

\* C29: an initialize on a service that is not initialized leaves it holding the
\* default aggregate when the resolved framework configuration is an empty
\* mapping or its resolution by create_framework_from_config fails, and the
\* result of create_framework_from_config when the configuration is not empty
\* and resolves; a configuration with a key but none of the seven recognised
\* ones gives an aggregate with no responsibility and no active member.
C29_ConstructionPath ==
    \A managed \in ManagedConfigs :
        LET framework_config == FrameworkConfig(service, managed)
            o == initialize(service, managed)
            made == create_framework_from_config(framework_config)
            empty == \A k \in DOMAIN framework_config : framework_config[k].t = "absent"
        IN  ~service.initialized =>
                /\ (empty \/ made.kind # "ok") =>
                      /\ o.kind = "ok"
                      /\ o.self.framework = HumanAIFramework
                /\ (~empty /\ made.kind = "ok") =>
                      /\ o.kind = "ok"
                      /\ o.self.framework = made.framework
                /\ framework_config = UnrecognisedConfig =>
                      /\ o.kind = "ok"
                      /\ o.self.framework = EmptyFramework

\* ------------------------------------------- properties of the registry

\* the service object a registered name is bound to
Bound(self, heap, service_name) == heap[Lookup(self, service_name).n]

\* every registered service is initialized
AllInitialized(self, heap) ==
    \A name \in Registered(self) : is_initialized(Bound(self, heap, name))

\* no registered service is initialized
NoneInitialized(self, heap) ==
    \A name \in Registered(self) : ~is_initialized(Bound(self, heap, name))

\* C22: whatever services are registered, after initialize_all every registered
\* service is initialized, after shutdown_all none is, and so after a following
\* initialize_all all are again; the three leave the registered names as they
\* were.
C22_BulkLifecycleRestartable ==
    [][/\ call'.op = "initialize_all" => AllInitialized(registry', instances')
       /\ call'.op = "shutdown_all" => NoneInitialized(registry', instances')
       /\ call'.op \in {"initialize_all", "shutdown_all"}
             => Registered(registry') = Registered(registry)]_vars

\* C23: register under a name already in the registry raises ValueError and
\* leaves the mapping as it was; after a register that succeeds the name is in
\* the registry, and get on a registered name returns the service object the
\* name was registered with, which stays bound to it until unregister.
C23_RegistrationUniqueStable ==
    [][/\ (call'.op = "register" /\ contains(registry, call'.args[1]))
             => (call'.ret.kind = "ValueError" /\ registry' = registry)
       /\ (call'.op = "register" /\ ~contains(registry, call'.args[1]))
             => /\ call'.ret.kind = "ok"
                /\ contains(registry', call'.args[1])
                /\ Lookup(registry', call'.args[1]) = call'.args[2]
       /\ (call'.op = "get" /\ contains(registry, call'.args[1]))
             => /\ call'.ret.kind = "ok"
                /\ call'.ret.value = Lookup(registry, call'.args[1])
       /\ \A name \in Registered(registry) :
             (call'.op = "unregister" /\ call'.args[1] = name)
                \/ (/\ contains(registry', name)
                    /\ Lookup(registry', name) = Lookup(registry, name))]_vars

\* C24: get and get_typed raise KeyError on a name that is not registered;
\* get_typed on a registered name returns the registered service when it is an
\* instance of the type asked for and raises TypeError when it is not; a service
\* returned with initialize set is initialized, and with initialize not set the
\* service is in the initialization state it was in.
C24_TypedLazyRetrieval ==
    [][call'.op \in {"get", "get_typed"} =>
          LET service_name == call'.args[1]
              initialize_it == call'.args[2] = PyBool(TRUE)
          IN  IF ~contains(registry, service_name)
              THEN call'.ret.kind = "KeyError"
              ELSE /\ call'.op = "get_typed" =>
                        IF isinstance(Bound(registry, instances, service_name),
                                      call'.args[3])
                        THEN /\ call'.ret.kind = "ok"
                             /\ call'.ret.value = Lookup(registry, service_name)
                        ELSE call'.ret.kind = "TypeError"
                   /\ (call'.ret.kind = "ok" /\ initialize_it)
                        => is_initialized(Bound(registry', instances', service_name))
                   /\ ~initialize_it
                        => is_initialized(Bound(registry', instances', service_name))
                              = is_initialized(Bound(registry, instances, service_name))]_vars

\* C26: unregister on a name that is not registered raises KeyError and changes
\* nothing; on a registered name it removes the name, the service removed is not
\* initialized afterwards, and every other registration is as it was, its
\* service in the initialization state it was in.
C26_UnregisterFrame ==
    [][call'.op = "unregister" =>
          LET service_name == call'.args[1]
          IN  IF ~contains(registry, service_name)
              THEN /\ call'.ret.kind = "KeyError"
                   /\ registry' = registry
                   /\ instances' = instances
              ELSE /\ call'.ret.kind = "ok"
                   /\ ~contains(registry', service_name)
                   /\ ~is_initialized(instances'[Lookup(registry, service_name).n])
                   /\ registry' = Delete(registry, service_name)
                   /\ \A name \in Registered(registry) \ {service_name} :
                         is_initialized(Bound(registry', instances', name))
                            = is_initialized(Bound(registry, instances, name))]_vars

\* C30: a get_typed that raises KeyError, the name being unknown, or TypeError,
\* the registered service being no instance of the type asked for, leaves the
\* registry mapping and the initialization state of every registered service as
\* they were.
C30_FailedTypedRetrievalChangesNothing ==
    [][(/\ call'.op = "get_typed"
        /\ \/ call'.ret.kind = "KeyError"
           \/ /\ call'.ret.kind = "TypeError"
              /\ contains(registry, call'.args[1])
              /\ ~isinstance(Bound(registry, instances, call'.args[1]), call'.args[3]))
          => /\ registry' = registry
             /\ \A name \in Registered(registry) :
                   is_initialized(Bound(registry', instances', name))
                      = is_initialized(Bound(registry, instances, name))]_vars

====
